---- MODULE Spec2Model ----
(***************************************************************************)
(* Model of openai-local-proxy/proxy_server.py: the request/response       *)
(* translation pipeline of the OpenAI-compatible local proxy.              *)
(*                                                                         *)
(* Python str values that the code slices or scans (header values, SSE     *)
(* lines, backend bodies, error details) are sequences of tokens; a token  *)
(* is either a run of characters C(c) or a piece of JSON text Json(v).     *)
(* Python/JSON values are tagged records (JObj, JArr, JStr, JNum, JBool,   *)
(* JNull); a dict is a function from field names to values.                *)
(***************************************************************************)
EXTENDS Integers, Sequences, FiniteSets, TLC

VARIABLES config, pc, request, transport, fwd, outbound, resp, gen, events, unit_call,
          flows

vars == <<config, pc, request, transport, fwd, outbound, resp, gen, events, unit_call,
          flows>>

(***************************************************************************)
(* Bounds of the model.                                                    *)
(***************************************************************************)
MaxLines == 2
MaxTime == 1
MaxKeys == 2

(***************************************************************************)
(* Text and JSON values.                                                   *)
(***************************************************************************)
C(c) == [c |-> c]
Json(v) == [v |-> v]
Str(s) == <<C(s)>>
Chars(s) == [i \in 1..Len(s) |-> C(s[i])]

JStr(s) == [k |-> "str", s |-> s]
JNum(n) == [k |-> "num", n |-> n]
JBool(b) == [k |-> "bool", b |-> b]
JObj(f) == [k |-> "obj", f |-> f]
JArr(a) == [k |-> "arr", a |-> a]
JNull == [k |-> "null"]

Has(d, key) == key \in DOMAIN d
Get(d, key, default) == IF key \in DOMAIN d THEN d[key] ELSE default
Put(d, key, v) == [x \in (DOMAIN d) \cup {key} |-> IF x = key THEN v ELSE d[x]]

IsSpace(tok) == tok \in {C(" "), C("\n")}

RECURSIVE lstrip(_)
lstrip(s) == IF s # <<>> /\ IsSpace(Head(s)) THEN lstrip(Tail(s)) ELSE s

RECURSIVE rstrip(_)
rstrip(s) ==
    IF s # <<>> /\ IsSpace(s[Len(s)]) THEN rstrip(SubSeq(s, 1, Len(s) - 1)) ELSE s

strip(s) == rstrip(lstrip(s))

startswith(s, prefix) ==
    /\ Len(s) >= Len(prefix)
    /\ SubSeq(s, 1, Len(prefix)) = prefix

SliceFrom(s, n) == SubSeq(s, n + 1, Len(s))

NoExc == [type |-> "", status_code |-> 0, detail |-> <<>>]
Exc(type, detail) == [type |-> type, status_code |-> 0, detail |-> detail]
HTTPException(status_code, detail) ==
    [type |-> "HTTPException", status_code |-> status_code, detail |-> detail]

StatusStr(n) ==
    CASE n = 200 -> "200" [] n = 400 -> "400" [] n = 401 -> "401"
      [] n = 404 -> "404" [] n = 405 -> "405" [] n = 500 -> "500"
      [] n = 502 -> "502" [] n = 503 -> "503" [] n = 504 -> "504"
      [] OTHER -> "?"

str(e) ==
    IF e.type = "HTTPException"
    THEN <<C(StatusStr(e.status_code)), C(":"), C(" ")>> \o e.detail
    ELSE e.detail

json_loads(text) ==
    LET s == strip(text) IN
    IF Len(s) = 1 /\ "v" \in DOMAIN s[1]
    THEN [raised |-> FALSE, exc |-> NoExc, value |-> s[1].v]
    ELSE [raised |-> TRUE, exc |-> Exc("JSONDecodeError", Str("Expecting value")),
          value |-> JNull]

json_dumps(v) == <<Json(v)>>

Truthy(v) ==
    CASE v.k = "bool" -> v.b
      [] v.k = "null" -> FALSE
      [] v.k = "num" -> v.n # 0
      [] v.k = "str" -> v.s # ""
      [] v.k = "arr" -> v.a # <<>>
      [] v.k = "obj" -> DOMAIN v.f # {}

(***************************************************************************)
(* `key in value` of Python for a parsed JSON value: key lookup on a dict, *)
(* membership on a list, substring on a str (a str is modelled as one      *)
(* word, so substring is equality), TypeError on everything else.          *)
(***************************************************************************)
InRaises(v) == v.k \in {"num", "bool", "null"}
In(key, v) ==
    CASE v.k = "obj" -> key \in DOMAIN v.f
      [] v.k = "arr" -> \E i \in 1..Len(v.a) : v.a[i] = JStr(key)
      [] v.k = "str" -> v.s = key
      [] OTHER -> FALSE

(***************************************************************************)
(* Configuration (ProxyConfig).  model_mapping keeps the insertion order   *)
(* of the dict as a sequence of <<external, internal>> pairs with unique   *)
(* keys.  ProxyConfig declares no `response` field.                        *)
(***************************************************************************)
DefaultModel == "llama-3.1-instruct-13b"

ManyToOneMapping ==
    << <<"gpt-3.5-turbo", "llama-3.1-instruct-13b">>,
       <<"gpt-4", "llama-3.1-instruct-13b">> >>

OneToOneMapping ==
    << <<"gpt-4", "llama-3.1-instruct-13b">>,
       <<"gpt-3.5-turbo", "mistral-7b">> >>

ProxyConfig(enabled, mapping, max_retries) ==
    [backends |-> [primary |-> [url |-> "http://10.50.10.14:1234", timeout |-> 300,
                                max_retries |-> max_retries, retry_delay |-> 1]],
     model_mapping |-> mapping,
     default_model |-> DefaultModel,
     authentication |-> [enabled |-> enabled, valid_api_keys |-> <<Str("abc")>>],
     logging |-> [include_request_body |-> FALSE, include_response_body |-> FALSE]]

Configs ==
    {ProxyConfig(enabled, mapping, max_retries) :
        enabled \in BOOLEAN, mapping \in {ManyToOneMapping, OneToOneMapping},
        max_retries \in {0, 3}}

(***************************************************************************)
(* Helper functions.                                                       *)
(***************************************************************************)
\* dict.get without its default: a missing key gives the empty name
DictGet_no_default(items, key, default) ==
    LET hits == {i \in 1..Len(items) : items[i][1] = key} IN
    IF hits = {} THEN ""
    ELSE items[CHOOSE i \in hits : \A j \in hits : j <= i][2]

\* dict.get on a table in which the first inserted of several items wins
DictGet_first_wins(items, key, default) ==
    LET hits == {i \in 1..Len(items) : items[i][1] = key} IN
    IF hits = {} THEN default
    ELSE items[CHOOSE i \in hits : \A j \in hits : i <= j][2]

\* dict.get over the insertion-ordered items: on duplicate keys the last
\* inserted item is the one a dict comprehension keeps
DictGet(items, key, default) ==
    LET hits == {i \in 1..Len(items) : items[i][1] = key} IN
    IF hits = {} THEN default
    ELSE items[CHOOSE i \in hits : \A j \in hits : j <= i][2]

\* the comprehension without the swap of key and value
ReverseItems_unswapped(items) == items

ReverseItems(items) == [i \in 1..Len(items) |-> <<items[i][2], items[i][1]>>]

\* the model values of the inputs are hashable; one that is not a name is the
\* key of no entry and comes back as the default of dict.get
map_model_name(model, reverse) ==
    IF model.k # "str" THEN model
    ELSE IF reverse
    THEN JStr(DictGet(ReverseItems(config.model_mapping), model.s, model.s))
    ELSE JStr(DictGet(config.model_mapping, model.s, model.s))

None == [some |-> FALSE, v |-> <<>>]
Some(v) == [some |-> TRUE, v |-> v]

BearerPrefix == Chars(<<"B", "e", "a", "r", "e", "r", " ">>)

\* validate_api_key without the allow-list lookup: any bearer token passes
validate_api_key_any_bearer(authorization) ==
    IF ~config.authentication.enabled THEN TRUE
    ELSE IF ~authorization.some \/ authorization.v = <<>> THEN FALSE
    ELSE startswith(authorization.v, BearerPrefix)

validate_api_key(authorization) ==
    IF ~config.authentication.enabled THEN TRUE
    ELSE IF ~authorization.some \/ authorization.v = <<>> THEN FALSE
    ELSE IF startswith(authorization.v, BearerPrefix)
    THEN LET token == SliceFrom(authorization.v, 7) IN
         \E i \in 1..Len(config.authentication.valid_api_keys) :
            config.authentication.valid_api_keys[i] = token
    ELSE FALSE

transform_request_body(body) ==
    LET transformed == body IN
    IF Has(transformed, "model")
    THEN Put(transformed, "model", map_model_name(transformed["model"], FALSE))
    ELSE Put(transformed, "model", JStr(config.default_model))

\* content.split() of the strings the model uses
split(s) ==
    CASE s = "" -> <<>>
      [] s = "one two three" -> <<"one", "two", "three">>
      [] OTHER -> <<s>>

Return(v) == [raised |-> FALSE, exc |-> NoExc, value |-> v]
Raise(e) == [raised |-> TRUE, exc |-> e, value |-> JNull]

usage_content(choice) ==
    IF Has(choice.f, "message") THEN Get(choice.f["message"].f, "content", JStr(""))
    ELSE IF Has(choice.f, "text") THEN choice.f["text"]
    ELSE JStr("")

restore_model(t, original_model) ==
    IF Has(t, "model") THEN Put(t, "model", original_model) ELSE t

ensure_object(t) ==
    IF ~Has(t, "object") /\ Has(t, "choices")
    THEN Put(t, "object", JStr("chat.completion")) ELSE t

ensure_created(t, now) ==
    IF ~Has(t, "created") THEN Put(t, "created", JNum(now)) ELSE t

add_usage(t) ==
    IF "response" \notin DOMAIN config
    THEN Raise(Exc("AttributeError",
                   Str("'ProxyConfig' object has no attribute 'response'")))
    ELSE IF /\ Truthy(Get(config["response"], "add_usage_stats", JBool(TRUE)))
            /\ ~Has(t, "usage")
            /\ Has(t, "choices")
            /\ Len(t["choices"].a) > 0
    THEN Return(JObj(Put(t, "usage",
            JObj([f \in {"prompt_tokens", "completion_tokens", "total_tokens"} |->
                    IF f = "prompt_tokens" THEN JNum(0)
                    ELSE JNum(Len(split(usage_content(t["choices"].a[1]).s)))]))))
    ELSE Return(JObj(t))

transform_response_body(body, original_model, now) ==
    IF body.k # "obj"
    THEN Raise(Exc("TypeError", Str("object does not support item assignment")))
    ELSE add_usage(ensure_created(ensure_object(restore_model(body.f, original_model)),
                                  now))

(***************************************************************************)
(* The backend seen through httpx: the outbound call either raises an      *)
(* httpx exception or completes with a response (status code and content,  *)
(* the content being a sequence of lines).                                 *)
(***************************************************************************)
NoResponse == [status_code |-> 0, content |-> <<>>]

TransportRaises(exc_type) ==
    [t |-> "raise", exc_type |-> exc_type, response |-> NoResponse]
TransportResponds(status_code, content) ==
    [t |-> "response", exc_type |-> "",
     response |-> [status_code |-> status_code, content |-> content]]

\* httpx exception hierarchy: TimeoutException < TransportError < RequestError
IsTimeoutException(exc_type) ==
    exc_type \in {"ConnectTimeout", "ReadTimeout", "WriteTimeout", "PoolTimeout"}
IsRequestError(exc_type) ==
    \/ IsTimeoutException(exc_type)
    \/ exc_type \in {"ConnectError", "ReadError", "WriteError", "RemoteProtocolError",
                     "UnsupportedProtocol", "TooManyRedirects", "DecodingError"}

RECURSIVE JoinLines(_)
JoinLines(lines) ==
    IF lines = <<>> THEN <<>>
    ELSE IF Len(lines) = 1 THEN lines[1]
    ELSE lines[1] \o <<C("\n")>> \o JoinLines(Tail(lines))

response_text(response) == JoinLines(response.content)
response_json(response) == json_loads(response_text(response))

\* the pops without effect: the copy keeps every header of the caller
Restrict_pops_nothing(d, keys) == d

Restrict(d, keys) == [x \in (DOMAIN d) \ keys |-> d[x]]

NoFwd == [invoked |-> FALSE, raised |-> FALSE, exc |-> NoExc,
          response |-> NoResponse, calls |-> <<>>, headers |-> <<>>]

\* forward_request with the two except clauses in the other order: the
\* RequestError clause then also takes the timeouts
forward_request_except_swapped(method, path, body, headers, stream, tr) ==
    LET backend_url == config.backends.primary.url
        url == <<backend_url>> \o path
        \* headers.copy(): the pops act on the copy, `headers` keeps its items
        forward_headers == Restrict(headers, {"authorization", "Authorization"})
        call == [method |-> method, url |-> url, headers |-> forward_headers,
                 json |-> IF method = "POST" THEN body ELSE JNull,
                 timeout |-> IF method = "POST" /\ stream THEN "none" ELSE "default"]
    IN
    IF method \notin {"GET", "POST", "DELETE"}
    THEN [invoked |-> TRUE, raised |-> TRUE,
          exc |-> HTTPException(405, <<C("Method "), C(method), C(" not supported")>>),
          response |-> NoResponse, calls |-> <<>>, headers |-> headers]
    ELSE IF tr.t = "raise"
    THEN IF IsRequestError(tr.exc_type)
         THEN [invoked |-> TRUE, raised |-> TRUE,
               exc |-> HTTPException(502, Str("Backend error: ") \o Str(tr.exc_type)),
               response |-> NoResponse, calls |-> <<call>>, headers |-> headers]
         ELSE [invoked |-> TRUE, raised |-> TRUE,
               exc |-> Exc(tr.exc_type, Str(tr.exc_type)),
               response |-> NoResponse, calls |-> <<call>>, headers |-> headers]
    ELSE [invoked |-> TRUE, raised |-> FALSE, exc |-> NoExc,
          response |-> tr.response, calls |-> <<call>>, headers |-> headers]

\* forward_request with a retry loop around the outbound call: a failed call is
\* repeated max_retries times before the error is raised
forward_request_retries(method, path, body, headers, stream, tr) ==
    LET backend_url == config.backends.primary.url
        url == <<backend_url>> \o path
        forward_headers == Restrict(headers, {"authorization", "Authorization"})
        call == [method |-> method, url |-> url, headers |-> forward_headers,
                 json |-> IF method = "POST" THEN body ELSE JNull,
                 timeout |-> IF method = "POST" /\ stream THEN "none" ELSE "default"]
        attempts == [i \in 1..(1 + config.backends.primary.max_retries) |-> call]
    IN
    IF method \notin {"GET", "POST", "DELETE"}
    THEN [invoked |-> TRUE, raised |-> TRUE,
          exc |-> HTTPException(405, <<C("Method "), C(method), C(" not supported")>>),
          response |-> NoResponse, calls |-> <<>>, headers |-> headers]
    ELSE IF tr.t = "raise"
    THEN [invoked |-> TRUE, raised |-> TRUE,
          exc |-> IF IsTimeoutException(tr.exc_type)
                  THEN HTTPException(504, Str("Backend timeout"))
                  ELSE HTTPException(502, Str("Backend error: ") \o Str(tr.exc_type)),
          response |-> NoResponse, calls |-> attempts, headers |-> headers]
    ELSE [invoked |-> TRUE, raised |-> FALSE, exc |-> NoExc,
          response |-> tr.response, calls |-> <<call>>, headers |-> headers]

forward_request(method, path, body, headers, stream, tr) ==
    LET backend_url == config.backends.primary.url
        url == <<backend_url>> \o path
        \* headers.copy(): the pops act on the copy, `headers` keeps its items
        forward_headers == Restrict(headers, {"authorization", "Authorization"})
        call == [method |-> method, url |-> url, headers |-> forward_headers,
                 json |-> IF method = "POST" THEN body ELSE JNull,
                 timeout |-> IF method = "POST" /\ stream THEN "none" ELSE "default"]
    IN
    IF method \notin {"GET", "POST", "DELETE"}
    THEN [invoked |-> TRUE, raised |-> TRUE,
          exc |-> HTTPException(405, <<C("Method "), C(method), C(" not supported")>>),
          response |-> NoResponse, calls |-> <<>>, headers |-> headers]
    ELSE IF tr.t = "raise"
    THEN IF IsTimeoutException(tr.exc_type)
         THEN [invoked |-> TRUE, raised |-> TRUE,
               exc |-> HTTPException(504, Str("Backend timeout")),
               response |-> NoResponse, calls |-> <<call>>, headers |-> headers]
         ELSE IF IsRequestError(tr.exc_type)
         THEN [invoked |-> TRUE, raised |-> TRUE,
               exc |-> HTTPException(502, Str("Backend error: ") \o Str(tr.exc_type)),
               response |-> NoResponse, calls |-> <<call>>, headers |-> headers]
         ELSE [invoked |-> TRUE, raised |-> TRUE,
               exc |-> Exc(tr.exc_type, Str(tr.exc_type)),
               response |-> NoResponse, calls |-> <<call>>, headers |-> headers]
    ELSE [invoked |-> TRUE, raised |-> FALSE, exc |-> NoExc,
          response |-> tr.response, calls |-> <<call>>, headers |-> headers]

(***************************************************************************)
(* stream_response: what one pass of the loop body does with one line.     *)
(***************************************************************************)
DataPrefix == Chars(<<"d", "a", "t", "a", ":", " ">>)
EventEnd == <<C("\n"), C("\n")>>

Skip == [kind |-> "skip", event |-> <<>>]
Yield(event) == [kind |-> "yield", event |-> event]
LineRaises == [kind |-> "raise", event |-> <<>>]

stream_line(line, original_model) ==
    IF strip(line) = <<>> THEN Skip
    ELSE IF startswith(line, DataPrefix)
    THEN LET data == SliceFrom(line, 6) IN
         IF strip(data) = Str("[DONE]")
         THEN Yield(DataPrefix \o Str("[DONE]") \o EventEnd)
         ELSE LET parsed == json_loads(data) IN
              IF parsed.raised
              THEN Yield(DataPrefix \o data \o EventEnd)
              ELSE LET chunk == parsed.value IN
                   IF InRaises(chunk) THEN LineRaises
                   ELSE IF In("model", chunk)
                   THEN IF chunk.k = "obj"
                        THEN Yield(DataPrefix
                                   \o json_dumps(JObj(Put(chunk.f, "model", original_model)))
                                   \o EventEnd)
                        ELSE LineRaises
                   ELSE Yield(DataPrefix \o json_dumps(chunk) \o EventEnd)
    ELSE Skip

\* one pull on the generator: run the loop from line `pos` until the next
\* yield, the end of the lines, or an exception that escapes the generator
RECURSIVE stream_response(_, _, _)
stream_response(lines, pos, original_model) ==
    IF pos > Len(lines) THEN [state |-> "finished", pos |-> pos, event |-> <<>>]
    ELSE LET r == stream_line(lines[pos], original_model) IN
         CASE r.kind = "skip" -> stream_response(lines, pos + 1, original_model)
           [] r.kind = "yield" -> [state |-> "suspended", pos |-> pos + 1, event |-> r.event]
           [] r.kind = "raise" -> [state |-> "raised", pos |-> pos + 1, event |-> <<>>]

(***************************************************************************)
(* Responses to the client and the outcome of a handler's try block.       *)
(***************************************************************************)
NoResp == [status_code |-> 0, kind |-> "none", detail |-> <<>>, content |-> JNull,
           raw |-> <<>>, original_model |-> JNull]

\* FastAPI turns an HTTPException leaving a handler into {"detail": ...}
ErrorResponse(e) ==
    [status_code |-> e.status_code, kind |-> "error", detail |-> e.detail,
     content |-> JNull, raw |-> <<>>, original_model |-> JNull]
JSONResponse(content) ==
    [status_code |-> 200, kind |-> "json", detail |-> <<>>, content |-> content,
     raw |-> <<>>, original_model |-> JNull]
StreamingResponse(original_model) ==
    [status_code |-> 200, kind |-> "stream", detail |-> <<>>, content |-> JNull,
     raw |-> <<>>, original_model |-> original_model]
RawResponse(raw, status_code) ==
    [status_code |-> status_code, kind |-> "raw", detail |-> <<>>, content |-> JNull,
     raw |-> raw, original_model |-> JNull]

TryRaise(e, f) == [raised |-> TRUE, exc |-> e, resp |-> NoResp, fwd |-> f]
TryReturn(r, f) == [raised |-> FALSE, exc |-> NoExc, resp |-> r, fwd |-> f]

AuthHeaders(authorization) ==
    [h \in {"authorization"} |-> IF authorization.some THEN authorization.v ELSE <<>>]

request_json(req) == json_loads(req.body)

NoGet == Exc("AttributeError", Str("object has no attribute 'get'"))

(***************************************************************************)
(* API endpoints.  Each handler is the function of the request, of what    *)
(* the backend does with the outbound call (tr) and of the clock (now).    *)
(***************************************************************************)
models_data(data) ==
    IF InRaises(data) THEN Raise(Exc("TypeError", Str("not iterable")))
    ELSE IF ~In("data", data) THEN Return(data)
    ELSE IF data.k # "obj" THEN Raise(Exc("TypeError", Str("indices must be integers")))
    ELSE LET models == data.f["data"] IN
         CASE models.k = "arr" ->
                IF \E i \in 1..Len(models.a) :
                      \/ InRaises(models.a[i])
                      \/ In("id", models.a[i]) /\ models.a[i].k # "obj"
                THEN Raise(Exc("TypeError", Str("does not support item assignment")))
                ELSE Return(JObj(Put(data.f, "data",
                        JArr([i \in 1..Len(models.a) |->
                                IF In("id", models.a[i])
                                THEN JObj(Put(models.a[i].f, "id",
                                              map_model_name(models.a[i].f["id"], TRUE)))
                                ELSE models.a[i]]))))
           [] models.k = "obj" ->
                IF "id" \in DOMAIN models.f
                THEN Raise(Exc("TypeError", Str("does not support item assignment")))
                ELSE Return(data)
           [] models.k = "str" -> Return(data)
           [] OTHER -> Raise(Exc("TypeError", Str("not iterable")))

FallbackModels(now) ==
    JObj([f \in {"object", "data"} |->
            IF f = "object" THEN JStr("list")
            ELSE JArr(<<JObj([g \in {"id", "object", "created", "owned_by"} |->
                               CASE g = "id" -> JStr("gpt-3.5-turbo")
                                 [] g = "object" -> JStr("model")
                                 [] g = "created" -> JNum(now)
                                 [] g = "owned_by" -> JStr("local")])>>)])

Unauthorized ==
    TryReturn(ErrorResponse(HTTPException(401, Str("Invalid API key"))), NoFwd)

list_models_response(f) ==
    IF f.raised THEN TryRaise(f.exc, f)
    ELSE IF f.response.status_code = 200
    THEN LET data == response_json(f.response) IN
         IF data.raised THEN TryRaise(data.exc, f)
         ELSE LET d == models_data(data.value) IN
              IF d.raised THEN TryRaise(d.exc, f)
              ELSE TryReturn(JSONResponse(d.value), f)
    ELSE TryRaise(HTTPException(f.response.status_code, response_text(f.response)), f)

list_models_try(req, tr) ==
    list_models_response(
        forward_request("GET", <<"/v1/models">>, JNull,
                        AuthHeaders(req.authorization), FALSE, tr))

\* the except clause of list_models: the fallback list
list_models_except(r, now) ==
    IF r.raised THEN TryReturn(JSONResponse(FallbackModels(now)), r.fwd) ELSE r

\* list_models surfacing a failure the way the other endpoints do
list_models_surfaces_error(req, tr, now) ==
    IF ~validate_api_key(req.authorization) THEN Unauthorized
    ELSE LET r == list_models_try(req, tr) IN
         IF r.raised THEN TryReturn(ErrorResponse(HTTPException(500, str(r.exc))), r.fwd)
         ELSE r

list_models(req, tr, now) ==
    IF ~validate_api_key(req.authorization) THEN Unauthorized
    ELSE list_models_except(list_models_try(req, tr), now)

\* what the three body-parsing endpoints do with a completed, non-streaming
\* backend exchange
normalized_response(f, original_model, now) ==
    IF f.response.status_code = 200
    THEN LET response_data == response_json(f.response) IN
         IF response_data.raised THEN TryRaise(response_data.exc, f)
         ELSE LET transformed_response ==
                    transform_response_body(response_data.value, original_model, now)
              IN
              IF transformed_response.raised THEN TryRaise(transformed_response.exc, f)
              ELSE TryReturn(JSONResponse(transformed_response.value), f)
    ELSE TryRaise(HTTPException(f.response.status_code, response_text(f.response)), f)

chat_completions_response(f, original_model, stream, now) ==
    IF f.raised THEN TryRaise(f.exc, f)
    ELSE IF stream THEN TryReturn(StreamingResponse(original_model), f)
    ELSE normalized_response(f, original_model, now)

chat_completions_forward(body, authorization, tr, now) ==
    LET original_model == Get(body, "model", JStr("gpt-3.5-turbo"))
        stream == Truthy(Get(body, "stream", JBool(FALSE)))
        transformed_body == transform_request_body(body)
    IN
    chat_completions_response(
        forward_request("POST", <<"/v1/chat/completions">>, JObj(transformed_body),
                        AuthHeaders(authorization), stream, tr),
        original_model, stream, now)

chat_completions_try(req, tr, now) ==
    LET parsed == request_json(req) IN
    IF parsed.raised THEN TryRaise(parsed.exc, NoFwd)
    ELSE IF parsed.value.k # "obj" THEN TryRaise(NoGet, NoFwd)
    ELSE chat_completions_forward(parsed.value.f, req.authorization, tr, now)

\* the except clauses of chat_completions
chat_completions_except(r) ==
    IF ~r.raised THEN r
    ELSE IF r.exc.type = "JSONDecodeError"
    THEN TryReturn(ErrorResponse(
             HTTPException(400, Str("Invalid JSON in request body"))), r.fwd)
    ELSE TryReturn(ErrorResponse(HTTPException(500, str(r.exc))), r.fwd)

chat_completions(req, tr, now) ==
    IF ~validate_api_key(req.authorization) THEN Unauthorized
    ELSE chat_completions_except(chat_completions_try(req, tr, now))

completions_response(f, original_model, stream, now) ==
    IF f.raised THEN TryRaise(f.exc, f)
    ELSE IF stream THEN TryReturn(StreamingResponse(original_model), f)
    ELSE normalized_response(f, original_model, now)

completions_forward(body, authorization, tr, now) ==
    LET original_model == Get(body, "model", JStr("text-davinci-003"))
        stream == Truthy(Get(body, "stream", JBool(FALSE)))
        transformed_body == transform_request_body(body)
    IN
    completions_response(
        forward_request("POST", <<"/v1/completions">>, JObj(transformed_body),
                        AuthHeaders(authorization), stream, tr),
        original_model, stream, now)

completions_try(req, tr, now) ==
    LET parsed == request_json(req) IN
    IF parsed.raised THEN TryRaise(parsed.exc, NoFwd)
    ELSE IF parsed.value.k # "obj" THEN TryRaise(NoGet, NoFwd)
    ELSE completions_forward(parsed.value.f, req.authorization, tr, now)

\* the except clause of completions, embeddings and catch_all
internal_error(r) ==
    IF ~r.raised THEN r
    ELSE TryReturn(ErrorResponse(HTTPException(500, str(r.exc))), r.fwd)

completions(req, tr, now) ==
    IF ~validate_api_key(req.authorization) THEN Unauthorized
    ELSE internal_error(completions_try(req, tr, now))

embeddings_response(f, original_model, now) ==
    IF f.raised THEN TryRaise(f.exc, f)
    ELSE normalized_response(f, original_model, now)

embeddings_forward(body, authorization, tr, now) ==
    LET original_model == Get(body, "model", JStr("text-embedding-ada-002"))
        transformed_body == transform_request_body(body)
    IN
    embeddings_response(
        forward_request("POST", <<"/v1/embeddings">>, JObj(transformed_body),
                        AuthHeaders(authorization), FALSE, tr),
        original_model, now)

embeddings_try(req, tr, now) ==
    LET parsed == request_json(req) IN
    IF parsed.raised THEN TryRaise(parsed.exc, NoFwd)
    ELSE IF parsed.value.k # "obj" THEN TryRaise(NoGet, NoFwd)
    ELSE embeddings_forward(parsed.value.f, req.authorization, tr, now)

embeddings(req, tr, now) ==
    IF ~validate_api_key(req.authorization) THEN Unauthorized
    ELSE internal_error(embeddings_try(req, tr, now))

\* catch_all normalizing every parsed object, as the other endpoints do
catch_all_body_always_normalizes(req) ==
    IF req.method \in {"POST", "PUT", "PATCH"}
    THEN LET parsed == request_json(req) IN
         IF parsed.raised THEN JNull
         ELSE IF parsed.value.k = "obj"
         THEN JObj(transform_request_body(parsed.value.f))
         ELSE parsed.value
    ELSE JNull

catch_all_body(req) ==
    IF req.method \in {"POST", "PUT", "PATCH"}
    THEN LET parsed == request_json(req) IN
         IF parsed.raised THEN JNull
         ELSE IF parsed.value.k = "obj" /\ Has(parsed.value.f, "model")
         THEN JObj(transform_request_body(parsed.value.f))
         ELSE parsed.value
    ELSE JNull

catch_all_response(f) ==
    IF f.raised THEN TryRaise(f.exc, f)
    ELSE IF f.response.status_code = 200
    THEN LET parsed == response_json(f.response) IN
         IF parsed.raised
         THEN TryReturn(RawResponse(response_text(f.response), f.response.status_code), f)
         ELSE TryReturn(JSONResponse(parsed.value), f)
    ELSE TryRaise(HTTPException(f.response.status_code, response_text(f.response)), f)

catch_all_try(req, tr) ==
    LET method == req.method
        full_path == <<"/">> \o req.path
        body == catch_all_body(req)
    IN
    catch_all_response(
        forward_request(method, full_path, body, AuthHeaders(req.authorization), FALSE, tr))

catch_all(req, tr, now) ==
    IF ~validate_api_key(req.authorization) THEN Unauthorized
    ELSE internal_error(catch_all_try(req, tr))

Handle(req, tr, now) ==
    CASE req.endpoint = "list_models" -> list_models(req, tr, now)
      [] req.endpoint = "chat_completions" -> chat_completions(req, tr, now)
      [] req.endpoint = "completions" -> completions(req, tr, now)
      [] req.endpoint = "embeddings" -> embeddings(req, tr, now)
      [] req.endpoint = "catch_all" -> catch_all(req, tr, now)

(***************************************************************************)
(* Inputs: what a client may send and what the backend may answer.         *)
(***************************************************************************)
Obj2(k1, v1, k2, v2) == JObj([x \in {k1, k2} |-> IF x = k1 THEN v1 ELSE v2])

Authorizations ==
    {None,
     Some(<<>>),
     Some(Chars(<<"B", "a", "s", "i", "c", " ">>) \o Str("abc")),
     Some(BearerPrefix \o Str("xyz")),
     Some(BearerPrefix \o Str("abc"))}

MalformedBody == Str("{not valid json")
ModelBody(m) == <<Json(Obj2("model", JStr(m), "messages", JStr("Hello")))>>
NoModelBody == <<Json(JObj([x \in {"messages"} |-> JStr("Hello")]))>>
StreamBody ==
    <<Json(JObj([x \in {"model", "messages", "stream"} |->
                  CASE x = "model" -> JStr("gpt-4")
                    [] x = "messages" -> JStr("Hello")
                    [] x = "stream" -> JBool(TRUE)]))>>
ListBody == <<Json(JArr(<<JNum(1)>>))>>
NoModelStreamBody == <<Json(Obj2("messages", JStr("Hello"), "stream", JBool(TRUE)))>>

PostBodies ==
    {MalformedBody, ModelBody("gpt-4"), ModelBody("my-local-model"), NoModelBody,
     StreamBody, ListBody, NoModelStreamBody}
CatchAllBodies == {MalformedBody, ModelBody("gpt-4"), NoModelBody}

Methods == {"GET", "POST", "PUT", "DELETE", "PATCH"}
Paths == {<<"v1/files">>}

Request(endpoint, method, path, authorization, body) ==
    [authorization |-> authorization, body |-> body, method |-> method, path |-> path,
     endpoint |-> endpoint]
NoRequest == Request("", "", <<>>, None, <<>>)

\* backend bodies
Completion(m) ==
    Obj2("model", JStr(m), "choices",
         JArr(<<JObj([x \in {"message"} |->
                        JObj([y \in {"content"} |-> JStr("one two three")])])>>))
ModelList ==
    JObj([x \in {"data"} |->
            JArr(<<JObj([y \in {"id"} |-> JStr("llama-3.1-instruct-13b")]),
                   JObj([y \in {"id"} |-> JStr("my-local-model")]),
                   JObj([y \in {"object"} |-> JStr("model")])>>)])
Chunk(m) == Obj2("model", JStr(m), "choices", JArr(<<>>))
ChunkNoModel == JObj([x \in {"choices"} |-> JArr(<<>>)])

StreamLines ==
    {<<>>,
     <<C(" ")>>,
     DataPrefix \o <<Json(Chunk("llama-3.1-instruct-13b"))>>,
     DataPrefix \o <<Json(ChunkNoModel)>>,
     DataPrefix \o Str("[DONE]"),
     DataPrefix \o Str("{not valid json"),
     DataPrefix \o <<Json(JNum(123))>>,
     Chars(<<"d", "a", "t", "a", ":">>) \o <<Json(ChunkNoModel)>>,
     Str(": keep-alive")}

JsonContents ==
    {<<<<Json(Completion("llama-3.1-instruct-13b"))>>>>,
     <<<<Json(ModelList)>>>>,
     <<<<Json(JNum(123))>>>>,
     <<Str("Not Found")>>}

RECURSIVE SeqsUpTo(_, _)
SeqsUpTo(S, n) ==
    IF n = 0 THEN {<<>>}
    ELSE LET shorter == SeqsUpTo(S, n - 1) IN
         shorter \cup {Append(q, x) : q \in shorter, x \in S}

StreamContents == SeqsUpTo(StreamLines, MaxLines)

Statuses == {200, 404, 503}
ErrorContents ==
    {<<Str("Not Found")>>,
     <<DataPrefix \o <<Json(Chunk("llama-3.1-instruct-13b"))>>>>}

BodyResponses ==
    {TransportResponds(200, c) : c \in JsonContents}
      \cup {TransportResponds(st, c) : st \in Statuses \ {200}, c \in ErrorContents}

BackendResponses ==
    BodyResponses \cup {TransportResponds(200, c) : c \in StreamContents}

BackendFailures == {"ReadTimeout", "ConnectError"}

Times == 1..MaxTime

NoTransport == [t |-> "none", exc_type |-> "", response |-> NoResponse]
NoGen == [lines |-> <<>>, pos |-> 1, state |-> "none"]
NoCall == [fn |-> ""]

\* the clients with a connection to the server and the flow of each one's request
Clients == {"a", "b"}
NoFlow == [pc |-> "idle", request |-> NoRequest, transport |-> NoTransport, fwd |-> NoFwd,
           outbound |-> <<>>, resp |-> NoResp, gen |-> NoGen, events |-> <<>>]
NoFlows == [c \in Clients |-> NoFlow]

(***************************************************************************)
(* The state machine: one inbound request at a time.  A handler runs up to *)
(* its outbound call (endpoint actions), resumes when the backend call     *)
(* completes or fails (Backend actions), and a streaming response is then  *)
(* pulled event by event by the outbound transport (StreamNext).           *)
(***************************************************************************)
Init ==
    /\ config \in Configs
    /\ pc = "idle"
    /\ request = NoRequest
    /\ transport = NoTransport
    /\ fwd = NoFwd
    /\ outbound = <<>>
    /\ resp = NoResp
    /\ gen = NoGen
    /\ events = <<>>
    /\ unit_call = NoCall
    /\ flows = NoFlows

\* the handler up to the await of the outbound call: what it sends does not
\* depend on what the backend will answer
Begin(req) ==
    LET r == Handle(req, NoTransport, 0) IN
    /\ pc = "idle"
    /\ request' = req
    /\ IF r.fwd.calls = <<>>
       THEN /\ pc' = "done"
            /\ resp' = r.resp
            /\ fwd' = r.fwd
            /\ outbound' = <<>>
       ELSE /\ pc' = "awaiting"
            /\ outbound' = r.fwd.calls
            /\ UNCHANGED <<resp, fwd>>
    /\ UNCHANGED <<config, transport, gen, events, unit_call, flows>>

ListModels ==
    \E a \in Authorizations :
        Begin(Request("list_models", "GET", <<"v1/models">>, a, <<>>))

ChatCompletions ==
    \E a \in Authorizations, b \in PostBodies :
        Begin(Request("chat_completions", "POST", <<"v1/chat/completions">>, a, b))

Completions ==
    \E a \in Authorizations, b \in PostBodies :
        Begin(Request("completions", "POST", <<"v1/completions">>, a, b))

Embeddings ==
    \E a \in Authorizations, b \in PostBodies :
        Begin(Request("embeddings", "POST", <<"v1/embeddings">>, a, b))

CatchAll ==
    \E m \in Methods, p \in Paths, a \in Authorizations, b \in CatchAllBodies :
        /\ m \in {"GET", "DELETE"} => b = MalformedBody
        /\ Begin(Request("catch_all", m, p, a, IF m \in {"GET", "DELETE"} THEN <<>> ELSE b))

\* the handler from the completion of the outbound call to its response
Resume(tr) ==
    /\ pc = "awaiting"
    /\ \E now \in Times :
         LET r == Handle(request, tr, now) IN
            /\ transport' = tr
            /\ fwd' = r.fwd
            /\ resp' = r.resp
            /\ IF r.resp.kind = "stream"
               THEN /\ pc' = "streaming"
                    /\ gen' = [lines |-> tr.response.content, pos |-> 1,
                               state |-> "created"]
               ELSE /\ pc' = "done"
                    /\ gen' = gen
    /\ UNCHANGED <<config, request, outbound, events, unit_call, flows>>

BackendFails ==
    \E exc_type \in BackendFailures :
        \* timeout=None on a streaming POST: httpx raises no timeout
        /\ pc = "awaiting"
        /\ IsTimeoutException(exc_type) => outbound[1].timeout # "none"
        /\ Resume(TransportRaises(exc_type))

\* the backend answers with an event stream only when the body it was sent
\* asked for one (the call made with timeout=None)
StreamCall == outbound # <<>> /\ outbound[1].timeout = "none"

BackendResponds ==
    /\ pc = "awaiting"
    /\ \E tr \in (IF StreamCall THEN BackendResponses ELSE BodyResponses) : Resume(tr)

StreamNext ==
    /\ pc = "streaming"
    /\ LET g == stream_response(gen.lines, gen.pos, resp.original_model) IN
       /\ gen' = [gen EXCEPT !.pos = g.pos, !.state = g.state]
       /\ events' = IF g.state = "suspended" THEN Append(events, g.event) ELSE events
       /\ pc' = IF g.state = "suspended" THEN "streaming" ELSE "done"
    /\ UNCHANGED <<config, request, transport, fwd, outbound, resp, unit_call, flows>>

\* the response is fully sent and the request's envelopes are discarded
Finish ==
    /\ pc = "done"
    /\ pc' = "idle"
    /\ request' = NoRequest
    /\ transport' = NoTransport
    /\ fwd' = NoFwd
    /\ outbound' = <<>>
    /\ resp' = NoResp
    /\ gen' = NoGen
    /\ events' = <<>>
    /\ UNCHANGED <<config, unit_call, flows>>

Next ==
    \/ ListModels
    \/ ChatCompletions
    \/ Completions
    \/ Embeddings
    \/ CatchAll
    \/ BackendFails
    \/ BackendResponds
    \/ StreamNext
    \/ Finish

Spec == Init /\ [][Next]_vars

(***************************************************************************)
(* The helper functions called directly, as tests/ call them: one call of  *)
(* a helper per step, on a configuration whose model_mapping is any table  *)
(* of up to MaxKeys entries.  Dicts passed to a helper are objects held by *)
(* reference: `heap` is the sequence of the objects, a reference an index. *)
(***************************************************************************)
ModelNames == {"gpt-3.5-turbo", "gpt-4", "llama-3.1-instruct-13b"}
UnitNames == ModelNames \cup {"some-random-model"}

Keys(items) == {items[i][1] : i \in 1..Len(items)}
Values(items) == {items[i][2] : i \in 1..Len(items)}

RECURSIVE MappingsUpTo(_)
MappingsUpTo(n) ==
    IF n = 0 THEN {<<>>}
    ELSE LET shorter == MappingsUpTo(n - 1) IN
         shorter \cup UNION {{Append(m, <<k, v>>) : k \in ModelNames \ Keys(m),
                                                     v \in ModelNames} : m \in shorter}

UnitConfigs == {ProxyConfig(FALSE, mapping, 3) : mapping \in MappingsUpTo(MaxKeys)}

UnitRequestBodies ==
    {json_loads(b).value.f :
        b \in {ModelBody(m) : m \in UnitNames} \cup {NoModelBody, StreamBody}}

FlatCompletion(m) ==
    Obj2("model", JStr(m), "choices",
         JArr(<<JObj([x \in {"text"} |-> JStr("one two three")])>>))
UsageCompletion(m) ==
    JObj([x \in {"model", "choices", "usage"} |->
            CASE x = "model" -> JStr(m)
              [] x = "choices" -> JArr(<<JObj([y \in {"text"} |-> JStr("one two three")])>>)
              [] x = "usage" -> JObj([y \in {"total_tokens"} |-> JNum(7)])])

UnitResponseBodies ==
    {Completion("llama-3.1-instruct-13b"), FlatCompletion("llama-3.1-instruct-13b"),
     UsageCompletion("llama-3.1-instruct-13b"), Chunk("llama-3.1-instruct-13b"),
     ChunkNoModel}

\* transform_request_body without the copy: the assignments go to `body`
transform_request_body_in_place(heap, body) ==
    [heap |-> [heap EXCEPT ![body] = transform_request_body(heap[body])], value |-> body]

\* transform_request_body with its argument held by reference: body.copy()
\* makes a new object and the assignments to `model` go to the copy
transform_request_body_call(heap, body) ==
    LET transformed == Len(heap) + 1 IN
    [heap |-> Append(heap, transform_request_body(heap[body])), value |-> transformed]

UnitInit ==
    /\ config \in UnitConfigs
    /\ pc = "idle"
    /\ request = NoRequest
    /\ transport = NoTransport
    /\ fwd = NoFwd
    /\ outbound = <<>>
    /\ resp = NoResp
    /\ gen = NoGen
    /\ events = <<>>
    /\ unit_call = NoCall
    /\ flows = NoFlows

MapModelName ==
    \E model \in UnitNames, reverse \in BOOLEAN :
        /\ unit_call' = [fn |-> "map_model_name", model |-> JStr(model),
                         reverse |-> reverse,
                         result |-> map_model_name(JStr(model), reverse)]
        /\ UNCHANGED <<config, pc, request, transport, fwd, outbound, resp, gen, events,
                       flows>>

\* a name mapped to its local name and back (test_model_mapping_bidirectional)
ModelMappingBidirectional ==
    \E openai_model \in UnitNames :
        LET local_model == map_model_name(JStr(openai_model), FALSE)
            mapped_back == map_model_name(local_model, TRUE)
        IN
        /\ unit_call' = [fn |-> "bidirectional", model |-> JStr(openai_model),
                         local_model |-> local_model, mapped_back |-> mapped_back]
        /\ UNCHANGED <<config, pc, request, transport, fwd, outbound, resp, gen, events,
                       flows>>

TransformRequestBody ==
    \E body \in UnitRequestBodies :
        LET r == transform_request_body_call(<<body>>, 1) IN
        /\ unit_call' = [fn |-> "transform_request_body", body |-> 1, heap |-> <<body>>,
                         after |-> r.heap, result |-> r.value]
        /\ UNCHANGED <<config, pc, request, transport, fwd, outbound, resp, gen, events,
                       flows>>

TransformResponseBody ==
    \E body \in UnitResponseBodies, original_model \in UnitNames, now \in Times :
        /\ unit_call' = [fn |-> "transform_response_body", body |-> body,
                         original_model |-> JStr(original_model), now |-> now,
                         result |-> transform_response_body(body, JStr(original_model), now)]
        /\ UNCHANGED <<config, pc, request, transport, fwd, outbound, resp, gen, events,
                       flows>>

UnitNext ==
    \/ MapModelName
    \/ ModelMappingBidirectional
    \/ TransformRequestBody
    \/ TransformResponseBody

UnitSpec == UnitInit /\ [][UnitNext]_vars

(***************************************************************************)
(* Several requests in flight at once: each client's handler is a          *)
(* coroutine with its own locals (a flow), suspended at the await of the   *)
(* backend call and between two events of its stream; the flows share      *)
(* config.  Every client posts to /v1/chat/completions.                    *)
(***************************************************************************)
ConcConfigs ==
    {ProxyConfig(FALSE, mapping, 3) : mapping \in {ManyToOneMapping, OneToOneMapping}}

StreamBodyFor(m) ==
    <<Json(JObj([x \in {"model", "messages", "stream"} |->
                  CASE x = "model" -> JStr(m)
                    [] x = "messages" -> JStr("Hello")
                    [] x = "stream" -> JBool(TRUE)]))>>

ConcBodies ==
    {ModelBody(m) : m \in {"gpt-4", "gpt-3.5-turbo"}}
      \cup {StreamBodyFor(m) : m \in {"gpt-4", "gpt-3.5-turbo"}}

ConcLines ==
    {DataPrefix \o <<Json(Chunk("llama-3.1-instruct-13b"))>>, DataPrefix \o Str("[DONE]")}

ConcResponses(stream) ==
    IF stream
    THEN {TransportResponds(200, c) : c \in SeqsUpTo(ConcLines, MaxLines)}
    ELSE {TransportResponds(200, <<<<Json(Completion("llama-3.1-instruct-13b"))>>>>),
          TransportResponds(404, <<Str("Not Found")>>)}

\* original_model of the generator of a client's streaming response
FlowModel(c) == flows[c].resp.original_model

ConcInit ==
    /\ config \in ConcConfigs
    /\ pc = "idle"
    /\ request = NoRequest
    /\ transport = NoTransport
    /\ fwd = NoFwd
    /\ outbound = <<>>
    /\ resp = NoResp
    /\ gen = NoGen
    /\ events = <<>>
    /\ unit_call = NoCall
    /\ flows = NoFlows

ConcFrame == UNCHANGED <<config, pc, request, transport, fwd, outbound, resp, gen, events,
                         unit_call>>

ConcBegin(c) ==
    /\ flows[c].pc = "idle"
    /\ \E b \in ConcBodies :
         LET req == Request("chat_completions", "POST", <<"v1/chat/completions">>, None, b)
             r == Handle(req, NoTransport, 0)
         IN
         flows' = [flows EXCEPT ![c] =
                     IF r.fwd.calls = <<>>
                     THEN [@ EXCEPT !.pc = "done", !.request = req, !.resp = r.resp,
                                    !.fwd = r.fwd]
                     ELSE [@ EXCEPT !.pc = "awaiting", !.request = req,
                                    !.outbound = r.fwd.calls]]
    /\ ConcFrame

ConcResume(c, tr) ==
    /\ flows[c].pc = "awaiting"
    /\ \E now \in Times :
         LET r == Handle(flows[c].request, tr, now) IN
         flows' = [flows EXCEPT ![c] =
                     [@ EXCEPT !.transport = tr, !.fwd = r.fwd, !.resp = r.resp,
                               !.pc = IF r.resp.kind = "stream" THEN "streaming" ELSE "done",
                               !.gen = IF r.resp.kind = "stream"
                                       THEN [lines |-> tr.response.content, pos |-> 1,
                                             state |-> "created"]
                                       ELSE @]]
    /\ ConcFrame

ConcBackendFails(c) ==
    /\ flows[c].pc = "awaiting"
    /\ ConcResume(c, TransportRaises("ConnectError"))

ConcBackendResponds(c) ==
    /\ flows[c].pc = "awaiting"
    /\ \E tr \in ConcResponses(flows[c].outbound[1].timeout = "none") : ConcResume(c, tr)

ConcStreamNext(c) ==
    /\ flows[c].pc = "streaming"
    /\ LET g == stream_response(flows[c].gen.lines, flows[c].gen.pos, FlowModel(c)) IN
       flows' = [flows EXCEPT ![c] =
                   [@ EXCEPT !.gen = [@ EXCEPT !.pos = g.pos, !.state = g.state],
                             !.events = IF g.state = "suspended" THEN Append(@, g.event)
                                        ELSE @,
                             !.pc = IF g.state = "suspended" THEN "streaming" ELSE "done"]]
    /\ ConcFrame

ConcFinish(c) ==
    /\ flows[c].pc = "done"
    /\ flows' = [flows EXCEPT ![c] = NoFlow]
    /\ ConcFrame

ConcNext ==
    \E c \in Clients :
        \/ ConcBegin(c)
        \/ ConcBackendFails(c)
        \/ ConcBackendResponds(c)
        \/ ConcStreamNext(c)
        \/ ConcFinish(c)

ConcSpec == ConcInit /\ [][ConcNext]_vars

(***************************************************************************)
(* Properties.                                                             *)
(***************************************************************************)
Handled == pc \in {"awaiting", "streaming", "done"}
Answered == pc \in {"streaming", "done"}
ForwardingEndpoints == {"chat_completions", "completions", "embeddings", "catch_all"}
BodyEndpoints == {"chat_completions", "completions", "embeddings"}

\* the bearer check as the interface section words it
BearerInAllowList(authorization) ==
    /\ authorization.some
    /\ Len(authorization.v) >= 7
    /\ \A i \in 1..7 : authorization.v[i] = BearerPrefix[i]
    /\ \E i \in 1..Len(config.authentication.valid_api_keys) :
          config.authentication.valid_api_keys[i]
             = [j \in 1..(Len(authorization.v) - 7) |-> authorization.v[j + 7]]

\* C1: with authentication enabled, on every authenticated endpoint a request
\* whose Authorization header is missing, not a 'Bearer ' header, or carries a
\* token outside the allow-list is answered 401 and makes no outbound call; a
\* request with an allow-listed bearer token is not answered 401 and goes on
\* to the rest of the handler, reaching forward_request when its body is usable
C1_AuthGate ==
    (config.authentication.enabled /\ Handled) =>
        IF BearerInAllowList(request.authorization)
        THEN /\ resp.status_code # 401
             /\ (request.endpoint \in {"list_models", "catch_all"}
                    \/ (~json_loads(request.body).raised
                        /\ json_loads(request.body).value.k = "obj"))
                  => (pc = "awaiting" \/ fwd.invoked)
        ELSE /\ pc = "done"
             /\ resp.kind = "error"
             /\ resp.status_code = 401
             /\ outbound = <<>>
             /\ ~fwd.invoked

C1_Witness ==
    /\ config.authentication.enabled
    /\ pc = "done"
    /\ request.endpoint = "chat_completions"
    /\ request.authorization = Some(BearerPrefix \o Str("xyz"))
    /\ resp.status_code = 401
    /\ outbound = <<>>

NonStreaming ==
    /\ ~json_loads(request.body).raised
    /\ json_loads(request.body).value.k = "obj"
    /\ ~Truthy(Get(json_loads(request.body).value.f, "stream", JBool(FALSE)))

BackendObject ==
    /\ transport.t = "response"
    /\ ~response_json(transport.response).raised
    /\ response_json(transport.response).value.k = "obj"

\* C2: a non-streaming POST /v1/chat/completions whose backend reply is 200
\* with a JSON body containing `model` is answered 200 with `model` equal to
\* the name the client sent and `choices` preserved
C2_ModelRestored ==
    (/\ pc = "done"
     /\ request.endpoint = "chat_completions"
     /\ validate_api_key(request.authorization)
     /\ NonStreaming
     /\ Has(json_loads(request.body).value.f, "model")
     /\ BackendObject
     /\ transport.response.status_code = 200
     /\ Has(response_json(transport.response).value.f, "model"))
    => /\ resp.status_code = 200
       /\ resp.kind = "json"
       /\ resp.content.k = "obj"
       /\ Has(resp.content.f, "model")
       /\ resp.content.f["model"] = json_loads(request.body).value.f["model"]
       /\ \A key \in DOMAIN response_json(transport.response).value.f \ {"model"} :
             /\ Has(resp.content.f, key)
             /\ resp.content.f[key] = response_json(transport.response).value.f[key]

\* the per-line result the stream contract names, for the lines it names
LineCovered(line) ==
    \/ strip(line) = <<>>
    \/ ~startswith(line, DataPrefix)
    \/ strip(SliceFrom(line, 6)) = Str("[DONE]")
    \/ /\ ~json_loads(SliceFrom(line, 6)).raised
       /\ json_loads(SliceFrom(line, 6)).value.k = "obj"

LineEvents(line, original_model) ==
    IF strip(line) = <<>> \/ ~startswith(line, DataPrefix) THEN <<>>
    ELSE IF strip(SliceFrom(line, 6)) = Str("[DONE]")
    THEN <<DataPrefix \o Str("[DONE]") \o EventEnd>>
    ELSE LET chunk == json_loads(SliceFrom(line, 6)).value IN
         <<DataPrefix
             \o <<Json(IF Has(chunk.f, "model")
                       THEN JObj([x \in DOMAIN chunk.f |->
                                    IF x = "model" THEN original_model ELSE chunk.f[x]])
                       ELSE chunk)>>
             \o EventEnd>>

RECURSIVE CoveredEvents(_, _)
CoveredEvents(lines, original_model) ==
    IF lines = <<>> THEN <<>>
    ELSE (IF LineCovered(Head(lines)) THEN LineEvents(Head(lines), original_model)
          ELSE <<>>)
         \o CoveredEvents(Tail(lines), original_model)

RECURSIVE IsSubseq(_, _)
IsSubseq(a, b) ==
    IF a = <<>> THEN TRUE
    ELSE IF b = <<>> THEN FALSE
    ELSE IF Head(a) = Head(b) THEN IsSubseq(Tail(a), Tail(b))
    ELSE IsSubseq(a, Tail(b))

StreamEnded == pc = "done" /\ resp.kind = "stream"

\* C3: for every sequence of backend lines the stream output is the in-order
\* concatenation of zero or one event per line: nothing for blank lines and
\* lines without 'data: ', 'data: [DONE]' for the sentinel, the re-serialized
\* object with `model` replaced for a JSON object payload
C3_PerLineEvents ==
    StreamEnded =>
        /\ IsSubseq(CoveredEvents(gen.lines, resp.original_model), events)
        /\ Len(events) <= Len(gen.lines)

\* C4: the stream transformer raises on no 'data: <payload>' line: each such
\* line yields one event and all the lines after it are processed
C4_NeverRaises ==
    StreamEnded =>
        /\ gen.state = "finished"
        /\ gen.pos = Len(gen.lines) + 1
        /\ Len(events)
             = Cardinality({i \in 1..Len(gen.lines) : startswith(gen.lines[i], DataPrefix)})

\* C5: on the forwarding endpoints a backend reply with a status other than
\* 200 reaches the client as an error with that status and the backend's text
C5_StatusPropagated ==
    (/\ Answered
     /\ request.endpoint \in ForwardingEndpoints
     /\ transport.t = "response"
     /\ transport.response.status_code # 200)
    => /\ resp.kind = "error"
       /\ resp.status_code = transport.response.status_code
       /\ resp.detail = response_text(transport.response)

\* C6: on the forwarding endpoints a failed outbound call reaches the client
\* as an error with a detail and the status of its class: 504 for a timeout,
\* 502 for any other transport error
C6_GatewayStatus ==
    (/\ Answered
     /\ request.endpoint \in ForwardingEndpoints
     /\ transport.t = "raise")
    => /\ resp.kind = "error"
       /\ resp.detail # <<>>
       /\ resp.status_code = IF IsTimeoutException(transport.exc_type) THEN 504 ELSE 502

\* C7: forward_request with a supported method ends a transport timeout in the
\* 504 'Backend timeout' condition, any other transport error in the 502
\* condition whose detail carries the error's description, and returns a
\* completed exchange unchanged whatever its status; nothing else escapes
C7_ForwardClasses ==
    (Answered /\ fwd.invoked /\ fwd.calls # <<>>) =>
        /\ (transport.t = "raise" /\ IsTimeoutException(transport.exc_type))
              => (fwd.raised /\ fwd.exc = HTTPException(504, Str("Backend timeout")))
        /\ (transport.t = "raise" /\ ~IsTimeoutException(transport.exc_type))
              => /\ fwd.raised
                 /\ fwd.exc.type = "HTTPException"
                 /\ fwd.exc.status_code = 502
                 /\ \E i \in 1..Len(fwd.exc.detail) :
                       fwd.exc.detail[i] = C(transport.exc_type)
        /\ transport.t = "response"
              => (~fwd.raised /\ fwd.response = transport.response)
        /\ fwd.raised => fwd.exc.type = "HTTPException"

C7_Witness ==
    /\ pc = "done"
    /\ transport.t = "raise"
    /\ transport.exc_type = "ReadTimeout"
    /\ fwd.calls # <<>>
    /\ fwd.raised
    /\ fwd.exc.status_code = 504

\* C8: on the body-parsing endpoints an authenticated request whose body is
\* not parseable JSON is answered 400 and makes no outbound call
C8_MalformedBody ==
    (/\ Handled
     /\ request.endpoint \in BodyEndpoints
     /\ validate_api_key(request.authorization)
     /\ json_loads(request.body).raised)
    => /\ pc = "done"
       /\ resp.status_code = 400
       /\ outbound = <<>>

\* C9: a request with a method outside GET, POST, DELETE makes no outbound
\* call and is answered 405
C9_MethodNotAllowed ==
    (/\ Handled
     /\ request.method \notin {"GET", "POST", "DELETE"}
     /\ validate_api_key(request.authorization))
    => /\ outbound = <<>>
       /\ resp.status_code = 405

IsFallbackList(content) ==
    /\ content.k = "obj"
    /\ Has(content.f, "data")
    /\ content.f["data"].k = "arr"
    /\ Len(content.f["data"].a) = 1
    /\ content.f["data"].a[1].f["id"] = JStr("gpt-3.5-turbo")
    /\ content.f["object"] = JStr("list")

\* the external names of an internal name, as the mapping table gives them
ExternalNames(internal) ==
    {config.model_mapping[i][1] :
        i \in {j \in 1..Len(config.model_mapping) : config.model_mapping[j][2] = internal}}

ModelEntries(v) ==
    /\ v.k = "obj"
    /\ Has(v.f, "data")
    /\ v.f["data"].k = "arr"
    /\ \A i \in 1..Len(v.f["data"].a) : v.f["data"].a[i].k = "obj"

\* C10: GET /v1/models that passes the auth check never answers an error: a
\* 200 backend list comes back with every id replaced by its external name, and
\* any failure (timeout, transport error, non-200 status, unparseable body)
\* gives the static one-entry list with id 'gpt-3.5-turbo'
C10_ModelsNeverFail ==
    (/\ pc = "done"
     /\ request.endpoint = "list_models"
     /\ validate_api_key(request.authorization))
    => /\ resp.status_code = 200
       /\ resp.kind = "json"
       /\ (\/ transport.t = "raise"
           \/ transport.response.status_code # 200
           \/ response_json(transport.response).raised)
             => IsFallbackList(resp.content)
       /\ (/\ transport.t = "response"
           /\ transport.response.status_code = 200
           /\ ~response_json(transport.response).raised
           /\ ModelEntries(response_json(transport.response).value))
             => LET sent == response_json(transport.response).value.f["data"].a
                    got == resp.content.f["data"].a
                IN /\ Len(got) = Len(sent)
                   /\ \A i \in 1..Len(sent) :
                        IF Has(sent[i].f, "id")
                        THEN got[i].f["id"].s
                               \in (IF ExternalNames(sent[i].f["id"].s) = {}
                                    THEN {sent[i].f["id"].s}
                                    ELSE ExternalNames(sent[i].f["id"].s))
                        ELSE got[i] = sent[i]

C10_Witness ==
    /\ pc = "done"
    /\ request.endpoint = "list_models"
    /\ validate_api_key(request.authorization)
    /\ transport.t = "response"
    /\ transport.response.status_code = 503
    /\ IsFallbackList(resp.content)

\* C11: no outbound call carries the client's Authorization header or its
\* value, on any endpoint and for any inbound header value, and the header
\* mapping the handler passed to forward_request still has its entry afterwards
C11_AuthorizationStripped ==
    /\ \A i \in 1..Len(outbound) :
          /\ "authorization" \notin DOMAIN outbound[i].headers
          /\ "Authorization" \notin DOMAIN outbound[i].headers
          /\ \A h \in DOMAIN outbound[i].headers :
                request.authorization.some
                   => outbound[i].headers[h] # request.authorization.v
    /\ fwd.calls # <<>> => fwd.calls = outbound
    /\ fwd.invoked => fwd.headers = AuthHeaders(request.authorization)

C11_Witness ==
    /\ pc = "done"
    /\ config.authentication.enabled
    /\ request.authorization = Some(BearerPrefix \o Str("abc"))
    /\ fwd.invoked
    /\ fwd.headers["authorization"] = BearerPrefix \o Str("abc")
    /\ Len(outbound) = 1
    /\ DOMAIN outbound[1].headers = {}

\* the two lookups as the mapping table defines them
toInternal(name) ==
    IF name \in Keys(config.model_mapping)
    THEN config.model_mapping[CHOOSE i \in 1..Len(config.model_mapping) :
                                 config.model_mapping[i][1] = name][2]
    ELSE name

LastKeyOf(internal) ==
    LET at == {i \in 1..Len(config.model_mapping) : config.model_mapping[i][2] = internal}
    IN config.model_mapping[CHOOSE i \in at : \A j \in at : j <= i][1]

toExternal(name) ==
    IF name \in Values(config.model_mapping) THEN LastKeyOf(name) ELSE name

\* C12: the request normalizer returns a new body whose `model` is
\* toInternal(model) when the input has `model` and the default internal model
\* when it has none; every other field is the input's, and the input object is
\* the same after the call
C12_RequestNormalizer ==
    unit_call.fn = "transform_request_body" =>
        LET input == unit_call.heap[unit_call.body]
            output == unit_call.after[unit_call.result]
        IN /\ unit_call.result # unit_call.body
           /\ DOMAIN output = DOMAIN input \cup {"model"}
           /\ output["model"] = IF "model" \in DOMAIN input
                                THEN JStr(toInternal(input["model"].s))
                                ELSE JStr(config.default_model)
           /\ \A key \in DOMAIN input \ {"model"} : output[key] = input[key]
           /\ unit_call.after[unit_call.body] = input

C12_Witness ==
    /\ unit_call.fn = "transform_request_body"
    /\ "model" \in DOMAIN unit_call.heap[unit_call.body]
    /\ unit_call.heap[unit_call.body]["model"] = JStr("gpt-4")
    /\ unit_call.after[unit_call.result]["model"] = JStr("llama-3.1-instruct-13b")
    /\ unit_call.after[unit_call.body]["model"] = JStr("gpt-4")

\* the text of a choice: the nested message content when there is a message,
\* otherwise the flat text
ChoiceText(choice) ==
    IF "message" \in DOMAIN choice.f THEN choice.f["message"].f["content"].s
    ELSE choice.f["text"].s

EstimatedUsage(tokens) ==
    JObj([f \in {"prompt_tokens", "completion_tokens", "total_tokens"} |->
            IF f = "prompt_tokens" THEN JNum(0) ELSE JNum(tokens)])

\* C13: the response normalizer gives a body without `usage` and with a
\* non-empty `choices` a `usage` of prompt_tokens 0 and completion_tokens =
\* total_tokens = the word count of the first choice's text (message content,
\* else flat text); a body that has `usage` keeps it
C13_UsageBackfill ==
    (unit_call.fn = "transform_response_body" /\ unit_call.body.k = "obj") =>
        LET body == unit_call.body.f IN
        /\ (/\ "usage" \notin DOMAIN body
            /\ "choices" \in DOMAIN body
            /\ Len(body["choices"].a) > 0)
              => /\ ~unit_call.result.raised
                 /\ "usage" \in DOMAIN unit_call.result.value.f
                 /\ unit_call.result.value.f["usage"]
                      = EstimatedUsage(Len(split(ChoiceText(body["choices"].a[1]))))
        /\ "usage" \in DOMAIN body
              => /\ ~unit_call.result.raised
                 /\ unit_call.result.value.f["usage"] = body["usage"]

\* C14: normalizing a normalized response again, at any later time, succeeds
\* and gives the same body
C14_Idempotent ==
    unit_call.fn = "transform_response_body" =>
        /\ ~unit_call.result.raised
        /\ \A later \in Times :
              transform_response_body(unit_call.result.value, unit_call.original_model,
                                      later) = unit_call.result

\* C15: a name that is not a key of the mapping table maps to itself forwards,
\* a name that is not a value of the table maps to itself backwards; the lookup
\* always returns a name and the table is the same after every call
C15_PassThrough ==
    /\ [](unit_call.fn = "map_model_name" =>
            /\ unit_call.result.k = "str"
            /\ (~unit_call.reverse /\ unit_call.model.s \notin Keys(config.model_mapping))
                  => unit_call.result = unit_call.model
            /\ (unit_call.reverse /\ unit_call.model.s \notin Values(config.model_mapping))
                  => unit_call.result = unit_call.model)
    /\ [][config'.model_mapping = config.model_mapping]_vars

C15_Witness ==
    /\ unit_call.fn = "map_model_name"
    /\ unit_call.reverse
    /\ config.model_mapping # <<>>
    /\ unit_call.model = JStr("some-random-model")
    /\ unit_call.result = JStr("some-random-model")

KeysOf(internal) ==
    {config.model_mapping[i][1] :
        i \in {j \in 1..Len(config.model_mapping) : config.model_mapping[j][2] = internal}}

\* C16: a key of the mapping table whose internal target is the target of no
\* other key comes back as itself from toExternal(toInternal(name))
C16_RoundTrip ==
    (/\ unit_call.fn = "bidirectional"
     /\ unit_call.model.s \in Keys(config.model_mapping)
     /\ KeysOf(toInternal(unit_call.model.s)) = {unit_call.model.s})
    => /\ unit_call.local_model = JStr(toInternal(unit_call.model.s))
       /\ unit_call.mapped_back = unit_call.model

C16_Witness ==
    /\ unit_call.fn = "bidirectional"
    /\ Len(config.model_mapping) = 2
    /\ unit_call.model.s \in Keys(config.model_mapping)
    /\ KeysOf(toInternal(unit_call.model.s)) = {unit_call.model.s}
    /\ unit_call.local_model # unit_call.model
    /\ unit_call.mapped_back = unit_call.model

DoneEvent == DataPrefix \o Str("[DONE]") \o EventEnd

\* C18: once a '[DONE]' line has been re-emitted as 'data: [DONE]\n\n' no
\* further event is emitted for that response, whatever lines follow
C18_DoneEndsOutput ==
    (Answered /\ resp.kind = "stream") =>
        \A i \in 1..Len(events) : events[i] = DoneEvent => i = Len(events)

\* C19: on the catch-all route a parsed body is rewritten by the request
\* normalizer only when it has `model`; a body without `model` goes to the
\* backend with exactly the client's fields, to the path of the inbound request
C19_CatchAllBody ==
    (/\ Handled
     /\ request.endpoint = "catch_all"
     /\ request.method = "POST"
     /\ validate_api_key(request.authorization)
     /\ ~json_loads(request.body).raised
     /\ json_loads(request.body).value.k = "obj")
    => LET sent == json_loads(request.body).value.f IN
       /\ Len(outbound) = 1
       /\ outbound[1].url = <<config.backends.primary.url, "/">> \o request.path
       /\ outbound[1].json =
            IF "model" \in DOMAIN sent
            THEN JObj([key \in DOMAIN sent |->
                         IF key = "model" THEN JStr(toInternal(sent["model"].s))
                         ELSE sent[key]])
            ELSE JObj(sent)

C19_Witness ==
    /\ pc = "awaiting"
    /\ request.endpoint = "catch_all"
    /\ request.method = "POST"
    /\ request.body = NoModelBody
    /\ outbound[1].json = NoModelBody[1].v
    /\ outbound[1].url = <<config.backends.primary.url, "/", "v1/files">>

\* C20: an inbound request makes at most one outbound call, whatever the call's
\* outcome and whatever max_retries is configured: the calls of the finished
\* handler are the one call it made, and no call is added while it is answered
C20_SingleAttempt ==
    /\ [](/\ Len(outbound) <= 1
          /\ Len(fwd.calls) <= 1
          /\ ((Answered /\ transport.t # "none")
                 => (Len(outbound) = 1 /\ fwd.calls = outbound)))
    /\ [][(pc \in {"awaiting", "streaming"}) => (outbound' = outbound)]_vars

C20_Witness ==
    /\ pc = "done"
    /\ config.backends.primary.max_retries = 3
    /\ transport.t = "raise"
    /\ transport.exc_type = "ReadTimeout"
    /\ Len(fwd.calls) = 1
    /\ fwd.raised

\* the backend lines the proxy has read: http_client.post returns once the
\* whole body of the backend response has been read
LinesConsumed == IF transport.t = "response" THEN Len(transport.response.content) ELSE 0
\* the backend lines already turned into an event or dropped
LinesProcessed == gen.pos - 1

\* C21: during a streaming request the proxy reads a backend line only on
\* demand of the consumer: the lines read from the backend exceed the lines
\* already emitted or dropped by at most one
C21_PullDriven ==
    (pc = "streaming" /\ resp.kind = "stream") => LinesConsumed - LinesProcessed <= 1

\* the model name a client asked for, and the model names an event carries
RequestedModel(req) == json_loads(req.body).value.f["model"]
EventModels(event) ==
    IF /\ Len(event) = Len(DataPrefix) + 1 + Len(EventEnd)
       /\ "v" \in DOMAIN event[Len(DataPrefix) + 1]
       /\ event[Len(DataPrefix) + 1].v.k = "obj"
       /\ "model" \in DOMAIN event[Len(DataPrefix) + 1].v.f
    THEN {event[Len(DataPrefix) + 1].v.f["model"]}
    ELSE {}

\* every event of a client's stream that names a model names the client's own
EventsOwnModel(c) ==
    \A e \in 1..Len(flows[c].events) :
        EventModels(flows[c].events[e]) \subseteq {RequestedModel(flows[c].request)}

\* the body answered to a client whose backend exchange gave a completion
\* names the client's own model
BodyOwnModel(c) ==
    (/\ flows[c].pc = "done"
     /\ flows[c].resp.kind # "stream"
     /\ flows[c].transport.t = "response"
     /\ flows[c].transport.response.status_code = 200)
    => /\ flows[c].resp.kind = "json"
       /\ flows[c].resp.content.k = "obj"
       /\ "model" \in DOMAIN flows[c].resp.content.f
       /\ flows[c].resp.content.f["model"] = RequestedModel(flows[c].request)

\* C22: in every interleaving of requests in flight with different model
\* names, each response body and each stream event delivered to a client
\* carries the model name of that client's own request, and no step of a
\* request changes the shared configuration
C22_RequestIsolation ==
    /\ [](\A c \in Clients :
            flows[c].pc \in {"streaming", "done"} => (EventsOwnModel(c) /\ BodyOwnModel(c)))
    /\ [][config' = config]_vars

\* the external name each endpoint falls back to
EndpointDefault(endpoint) ==
    CASE endpoint = "chat_completions" -> "gpt-3.5-turbo"
      [] endpoint = "completions" -> "text-davinci-003"
      [] endpoint = "embeddings" -> "text-embedding-ada-002"

NoModelRequest ==
    /\ request.endpoint \in BodyEndpoints
    /\ validate_api_key(request.authorization)
    /\ ~json_loads(request.body).raised
    /\ json_loads(request.body).value.k = "obj"
    /\ "model" \notin DOMAIN json_loads(request.body).value.f

\* C23: a body without `model` on the three body endpoints goes to the backend
\* with the configured default internal model, and the name written into the
\* response's `model` and into the stream events is the endpoint's own fixed
\* external default
C23_DefaultModel ==
    (Handled /\ NoModelRequest) =>
        /\ Len(outbound) = 1
        /\ outbound[1].json.f["model"] = JStr(config.default_model)
        /\ \A e \in 1..Len(events) :
              EventModels(events[e]) \subseteq {JStr(EndpointDefault(request.endpoint))}
        /\ (/\ pc = "done"
            /\ resp.kind # "stream"
            /\ BackendObject
            /\ transport.response.status_code = 200
            /\ Has(response_json(transport.response).value.f, "model"))
              => /\ resp.kind = "json"
                 /\ resp.content.k = "obj"
                 /\ Has(resp.content.f, "model")
                 /\ resp.content.f["model"] = JStr(EndpointDefault(request.endpoint))

====
